---- MODULE Spec2Model ----
(***************************************************************************)
(* A model of redis_cache/cache.py: the cache facade RedisCache (get, set, *)
(* add, delete, incr, incr_version, get_many, set_many), its key and value *)
(* codecs, and the connection pool registry CacheConnectionPool.           *)
(*                                                                         *)
(* Conventions.  An optional Python argument is a sequence: <<>> is None   *)
(* and <<x>> is the value x.  A Python value is a record [type, val].  A   *)
(* key is a record [cachekey, text]: text is the key's characters as a     *)
(* sequence of strings, cachekey says whether the object is a CacheKey.    *)
(* A node's database maps encoded key texts to entries [present, payload,  *)
(* ttl]; ttl = 0 is "no expiry".                                           *)
(***************************************************************************)
EXTENDS Integers, Sequences, FiniteSets, TLC

VARIABLES
    store,      \* the databases of the nodes: store[node][key text]
    route,      \* the sharder: the node of every key text handed to it
    ret,        \* the last facade call: its arguments, its result, its commands
    nops,       \* the number of facade calls made so far
    pools,      \* CacheConnectionPool._connection_pools
    created,    \* every redis.ConnectionPool constructed so far
    pc,         \* the position of each thread inside get_connection_pool
    made,       \* the pool each thread has constructed (0: none)
    targ,       \* the identity of each get_connection_pool call
    tret,       \* the pool each get_connection_pool call returned (0: not yet)
    kin,        \* the inputs of a make_key round trip
    kout        \* the keys the round trip produced

vars == <<store, route, ret, nops, pools, created, pc, made, targ, tret, kin, kout>>

-----------------------------------------------------------------------------
(* Bounds of the model *)

MaxOps == 2         \* facade calls in one behaviour
MaxCalls == 3       \* get_connection_pool calls made one after the other
NumThreads == 2     \* threads that call get_connection_pool at once
MaxKeyVersion == 2  \* the versions handed to make_key are 0..MaxKeyVersion
MaxInt == 5         \* the integer the callers store
MaxDelta == 2       \* the largest delta handed to incr
TimeScale == 2      \* timeouts are given in units of 1/TimeScale seconds
default_timeout == 2    \* BaseCache.default_timeout, in seconds

None == <<>>
Some(x) == <<x>>

Nodes == {"n1", "n2"}
Keys == {<<"a">>, <<"b">>}
Versions == {1, 2}

-----------------------------------------------------------------------------
(* Python values *)

IntV(n) == [type |-> "int", val |-> n]
BoolV(b) == [type |-> "bool", val |-> IF b THEN 1 ELSE 0]
StrV(s) == [type |-> "str", val |-> s]
NoneV == [type |-> "none", val |-> 0]
ValueError == [type |-> "ValueError", val |-> 0]
TypeError == [type |-> "TypeError", val |-> 0]

\* isinstance(value, int): bool is a subclass of int
IsInstanceInt(v) == v.type \in {"int", "bool"}
IsInstanceBool(v) == v.type = "bool"

\* every integer a payload of the model can hold
IntBound == MaxInt + MaxOps * (MaxDelta + 1)
IntRange == -IntBound..IntBound

\* str(n): the decimal text of an integer, as the client writes it
IntText(n) == ToString(n)

\* int(original): succeeds on a decimal text only
CanParseInt(original) ==
    /\ Len(original) = 1
    /\ \E n \in IntRange : IntText(n) = original[1]

ParseInt(original) == CHOOSE n \in IntRange : IntText(n) = original[1]

-----------------------------------------------------------------------------
(* The value codec *)

\* pickle.dumps(value): an opcode, the type and the value's text
serialize(value) ==
    <<"pickle", value.type,
      IF IsInstanceInt(value) THEN IntText(value.val)
      ELSE IF value.type = "none" THEN "" ELSE value.val>>

\* pickle.loads(value)
deserialize(value) ==
    [type |-> value[2],
     val |-> IF value[2] \in {"int", "bool"} THEN ParseInt(<<value[3]>>)
             ELSE IF value[2] = "none" THEN 0 ELSE value[3]]

get_value(original) ==
    IF CanParseInt(original) THEN IntV(ParseInt(original))
    ELSE deserialize(original)


\* set_payload with the test "not isinstance(value, int)" alone: a bool goes
\* to the node as an integer
set_payload_bool_as_int(value) ==
    IF ~IsInstanceInt(value) THEN serialize(value) ELSE <<IntText(value.val)>>

\* what set() hands to the node for a value: "if not isinstance(value, int)
\* or isinstance(value, bool)" pickles, anything else goes as it is
set_payload(value) ==
    IF ~IsInstanceInt(value) \/ IsInstanceBool(value)
    THEN serialize(value)
    ELSE <<IntText(value.val)>>

-----------------------------------------------------------------------------
(* The key codec *)

key_prefix == "p"
DefaultVersion == 1

RawKey(text) == [cachekey |-> FALSE, text |-> text]
CacheKey(text) == [cachekey |-> TRUE, text |-> text]

\* BaseCache.make_key with the default key function: "prefix:version:key"
base_make_key(text, version) ==
    <<key_prefix, ":",
      ToString(IF version = None THEN DefaultVersion ELSE version[1]), ":">>
    \o text

\* make_key without the isinstance test: an encoded key is encoded again
make_key_again(key, version) == CacheKey(base_make_key(key.text, version))

make_key(key, version) ==
    IF ~key.cachekey THEN CacheKey(base_make_key(key.text, version))
    ELSE key

EncTexts == {base_make_key(k, Some(v)) : k \in Keys, v \in Versions}
KeyTexts == Keys \cup EncTexts

-----------------------------------------------------------------------------
(* The sharder *)

\* The sharders of the model: the first key is on n1 (the nodes are
\* interchangeable), the other key on either node, and the encoded texts
\* together on either node.
Routes ==
    {r \in [KeyTexts -> Nodes] :
        /\ r[<<"a">>] = "n1"
        /\ \A e1 \in EncTexts, e2 \in EncTexts : r[e1] = r[e2]}

\* CacheSharder.get_client hashes the text of the key it is handed
get_client(key) == route[key.text]

-----------------------------------------------------------------------------
(* The node: the commands of one Redis database, as the client calls them *)

Absent == [present |-> FALSE, payload |-> <<>>, ttl |-> 0]
Stored(payload, ttl) == [present |-> TRUE, payload |-> payload, ttl |-> ttl]

EmptyDb == [k \in EncTexts |-> Absent]

\* a command as it goes to a node
Cmd(node, verb, k) == [node |-> node, verb |-> verb, key |-> k]

redis_exists(db, k) == db[k].present

\* SET: stores the payload and discards any expiry
redis_set(db, k, payload) == [db EXCEPT ![k] = Stored(payload, 0)]

\* SETNX: stores only when the key is absent, and says whether it did
redis_setnx(db, k, payload) ==
    IF db[k].present THEN [db |-> db, added |-> FALSE]
    ELSE [db |-> [db EXCEPT ![k] = Stored(payload, 0)], added |-> TRUE]

\* SETEX: stores the payload with an expiry
redis_setex(db, k, payload, time) == [db EXCEPT ![k] = Stored(payload, time)]

\* EXPIRE: sets the expiry of a present key
redis_expire(db, k, time) ==
    IF db[k].present THEN [db EXCEPT ![k].ttl = time] ELSE db


\* INCRBY: an absent key counts as 0; a payload that is no decimal integer
\* is refused (redis.ResponseError); the expiry is kept
redis_incr(db, k, amount) ==
    IF ~db[k].present
    THEN [ok |-> TRUE, value |-> amount,
          db |-> [db EXCEPT ![k] = Stored(<<IntText(amount)>>, 0)]]
    ELSE IF CanParseInt(db[k].payload)
    THEN [ok |-> TRUE, value |-> ParseInt(db[k].payload) + amount,
          db |-> [db EXCEPT ![k].payload =
                      <<IntText(ParseInt(db[k].payload) + amount)>>]]
    ELSE [ok |-> FALSE, value |-> 0, db |-> db]

\* DEL
redis_delete(db, k) == [db EXCEPT ![k] = Absent]

\* RENAME: refused (redis.ResponseError) when the source is absent; the entry
\* moves with its expiry and replaces the destination.  Renaming a key to
\* itself is refused by servers before 3.2 and is a no-op since: same_ok.
redis_rename(db, old, new, same_ok) ==
    IF ~db[old].present THEN [ok |-> FALSE, db |-> db]
    ELSE IF old = new THEN [ok |-> same_ok, db |-> db]
    ELSE [ok |-> TRUE, db |-> [db EXCEPT ![new] = db[old], ![old] = Absent]]

-----------------------------------------------------------------------------
(* The cache facade.  Every operation takes the store it runs on and gives *)
(* the store it leaves, the value it returns (an exception is returned as  *)
(* a value of its type) and the commands it sent, in order.                *)

\* int(timeout) of a timeout given in units of 1/TimeScale seconds
PyInt(t) == IF t >= 0 THEN t \div TimeScale ELSE -((-t) \div TimeScale)


\* _set with the first test written "timeout <= 0": a negative timeout stores
_set_negative_stores(db, k, payload, timeout, _add_only) ==
    IF timeout <= 0
    THEN IF _add_only
         THEN [db |-> redis_setnx(db, k, payload).db,
               result |-> redis_setnx(db, k, payload).added,
               verbs |-> <<"setnx">>]
         ELSE [db |-> redis_set(db, k, payload), result |-> TRUE,
               verbs |-> <<"set">>]
    ELSE IF _add_only
         THEN IF redis_setnx(db, k, payload).added
              THEN [db |-> redis_expire(redis_setnx(db, k, payload).db, k, timeout),
                    result |-> TRUE, verbs |-> <<"setnx", "expire">>]
              ELSE [db |-> db, result |-> FALSE, verbs |-> <<"setnx">>]
         ELSE [db |-> redis_setex(db, k, payload, timeout), result |-> TRUE,
               verbs |-> <<"setex">>]

\* _set on the database of its client; verbs are the commands it sends
_set(db, k, payload, timeout, _add_only) ==
    IF timeout = 0
    THEN IF _add_only
         THEN [db |-> redis_setnx(db, k, payload).db,
               result |-> redis_setnx(db, k, payload).added,
               verbs |-> <<"setnx">>]
         ELSE [db |-> redis_set(db, k, payload), result |-> TRUE,
               verbs |-> <<"set">>]
    ELSE IF timeout > 0
    THEN IF _add_only
         THEN IF redis_setnx(db, k, payload).added
              THEN [db |-> redis_expire(redis_setnx(db, k, payload).db, k, timeout),
                    result |-> TRUE, verbs |-> <<"setnx", "expire">>]
              ELSE [db |-> db, result |-> FALSE, verbs |-> <<"setnx">>]
         ELSE [db |-> redis_setex(db, k, payload, timeout), result |-> TRUE,
               verbs |-> <<"setex">>]
    ELSE [db |-> db, result |-> FALSE, verbs |-> <<>>]

set(st, key, value, timeout, version, client, _add_only) ==
    LET c == IF client = None THEN get_client(key) ELSE client[1]
        k == make_key(key, version)
        secs == IF timeout = None THEN default_timeout ELSE PyInt(timeout[1])
        r == _set(st[c], k.text, set_payload(value), secs, _add_only)
    IN  [store |-> [st EXCEPT ![c] = r.db],
         result |-> BoolV(r.result),
         cmds |-> [i \in 1..Len(r.verbs) |-> Cmd(c, r.verbs[i], k.text)]]


\* add without the existence check and without _add_only: a plain set
add_overwrites(st, key, value, timeout, version) ==
    set(st, key, value, timeout, None, None, FALSE)

\* add checks the key at the version it is given and then calls
\* self.set(key, value, timeout, _add_only=True): set gets no version
add(st, key, value, timeout, version) ==
    LET c == get_client(key)
        k == make_key(key, version)
        s == set(st, key, value, timeout, None, None, TRUE)
    IN  IF redis_exists(st[c], k.text)
        THEN [store |-> st, result |-> BoolV(FALSE),
              cmds |-> <<Cmd(c, "exists", k.text)>>]
        ELSE [store |-> s.store, result |-> s.result,
              cmds |-> <<Cmd(c, "exists", k.text)>> \o s.cmds]

get(st, key, default, version) ==
    LET e == st[get_client(key)][make_key(key, version).text]
    IN  IF ~e.present THEN default ELSE get_value(e.payload)

get_cmds(key, version) ==
    <<Cmd(get_client(key), "get", make_key(key, version).text)>>

delete(st, key, version) ==
    LET c == get_client(key)
        k == make_key(key, version)
    IN  [store |-> [st EXCEPT ![c] = redis_delete(st[c], k.text)],
         result |-> NoneV,
         cmds |-> <<Cmd(c, "delete", k.text)>>]


\* incr without the existence check: the node's increment creates the key
incr_unchecked(st, key, delta, version) ==
    LET c == get_client(key)
        k == make_key(key, version)
        n == redis_incr(st[c], k.text, delta)
        old == get(st, k, NoneV, None)
        value == IntV(old.val + 1)
        s == set(st, k, value, None, None, None, FALSE)
        sent == <<Cmd(c, "incr", k.text)>>
    IN  IF n.ok
        THEN [store |-> [st EXCEPT ![c] = n.db], result |-> IntV(n.value),
              cmds |-> sent]
        ELSE IF ~IsInstanceInt(old)
        THEN [store |-> st, result |-> TypeError,
              cmds |-> sent \o get_cmds(k, None)]
        ELSE [store |-> s.store, result |-> value,
              cmds |-> sent \o get_cmds(k, None) \o s.cmds]

\* incr that sends client.incr(key) and leaves the delta out
incr_by_one(st, key, delta, version) ==
    LET c == get_client(key)
        k == make_key(key, version)
        n == redis_incr(st[c], k.text, 1)
        old == get(st, k, NoneV, None)
        value == IntV(old.val + 1)
        s == set(st, k, value, None, None, None, FALSE)
        sent == <<Cmd(c, "exists", k.text), Cmd(c, "incr", k.text)>>
    IN  IF ~redis_exists(st[c], k.text)
        THEN [store |-> st, result |-> ValueError,
              cmds |-> <<Cmd(c, "exists", k.text)>>]
        ELSE IF n.ok
        THEN [store |-> [st EXCEPT ![c] = n.db], result |-> IntV(n.value),
              cmds |-> sent]
        ELSE IF ~IsInstanceInt(old)
        THEN [store |-> st, result |-> TypeError,
              cmds |-> sent \o get_cmds(k, None)]
        ELSE [store |-> s.store, result |-> value,
              cmds |-> sent \o get_cmds(k, None) \o s.cmds]

\* incr; when the node refuses the increment: value = self.get(key) + 1 and
\* self.set(key, value), both called with the encoded key
incr(st, key, delta, version) ==
    LET c == get_client(key)
        k == make_key(key, version)
        n == redis_incr(st[c], k.text, delta)
        old == get(st, k, NoneV, None)
        value == IntV(old.val + 1)
        s == set(st, k, value, None, None, None, FALSE)
        sent == <<Cmd(c, "exists", k.text), Cmd(c, "incr", k.text)>>
    IN  IF ~redis_exists(st[c], k.text)
        THEN [store |-> st, result |-> ValueError,
              cmds |-> <<Cmd(c, "exists", k.text)>>]
        ELSE IF n.ok
        THEN [store |-> [st EXCEPT ![c] = n.db], result |-> IntV(n.value),
              cmds |-> sent]
        ELSE IF ~IsInstanceInt(old)
        THEN [store |-> st, result |-> TypeError,
              cmds |-> sent \o get_cmds(k, None)]
        ELSE [store |-> s.store, result |-> value,
              cmds |-> sent \o get_cmds(k, None) \o s.cmds]


\* incr_version that returns the old version
incr_version_old_version(st, key, delta, version, same_ok) ==
    LET v == IF version = None THEN DefaultVersion ELSE version[1]
        c == get_client(key)
        old == make_key(key, Some(v))
        new == make_key(key, Some(v + delta))
        r == redis_rename(st[c], old.text, new.text, same_ok)
    IN  IF r.ok
        THEN [store |-> [st EXCEPT ![c] = r.db], result |-> IntV(v),
              cmds |-> <<Cmd(c, "rename", old.text)>>]
        ELSE [store |-> st, result |-> ValueError,
              cmds |-> <<Cmd(c, "rename", old.text)>>]

\* incr_version that empties the node before it stores the renamed entry
incr_version_flushes(st, key, delta, version, same_ok) ==
    LET v == IF version = None THEN DefaultVersion ELSE version[1]
        c == get_client(key)
        old == make_key(key, Some(v))
        new == make_key(key, Some(v + delta))
        r == redis_rename(st[c], old.text, new.text, same_ok)
    IN  IF r.ok
        THEN [store |-> [st EXCEPT ![c] = [EmptyDb EXCEPT ![new.text] = st[c][old.text]]],
              result |-> IntV(v + delta),
              cmds |-> <<Cmd(c, "rename", old.text)>>]
        ELSE [store |-> st, result |-> ValueError,
              cmds |-> <<Cmd(c, "rename", old.text)>>]

incr_version(st, key, delta, version, same_ok) ==
    LET v == IF version = None THEN DefaultVersion ELSE version[1]
        c == get_client(key)
        old == make_key(key, Some(v))
        new == make_key(key, Some(v + delta))
        r == redis_rename(st[c], old.text, new.text, same_ok)
    IN  IF r.ok
        THEN [store |-> [st EXCEPT ![c] = r.db], result |-> IntV(v + delta),
              cmds |-> <<Cmd(c, "rename", old.text)>>]
        ELSE [store |-> st, result |-> ValueError,
              cmds |-> <<Cmd(c, "rename", old.text)>>]

\* the keys of a list that the sharder gives to each client, in list order
shard(keys) ==
    [c \in Nodes |-> SelectSeq(keys, LAMBDA k : get_client(RawKey(k)) = c)]


\* _get_many without "if value is None: continue": an absent key is kept
_get_many_keeps_absent(db, keys, version) ==
    LET enc(k) == make_key(RawKey(k), version).text
    IN  [k \in {keys[i] : i \in 1..Len(keys)} |->
            IF db[enc(k)].present THEN get_value(db[enc(k)].payload) ELSE NoneV]

_get_many(db, keys, version) ==
    LET enc(k) == make_key(RawKey(k), version).text
        found == {keys[i] : i \in {j \in 1..Len(keys) : db[enc(keys[j])].present}}
    IN  [k \in found |-> get_value(db[enc(k)].payload)]

\* get_many calls self._get_many(client, keys): the version is not handed on
get_many(st, keys, version) ==
    LET per == [c \in Nodes |-> _get_many(st[c], shard(keys)[c], None)]
    IN  [k \in UNION {DOMAIN per[c] : c \in Nodes} |->
            per[CHOOSE c \in Nodes : k \in DOMAIN per[c]][k]]

\* a list of the elements of a set: data.keys()
RECURSIVE SeqOf(_)
SeqOf(S) ==
    IF S = {} THEN <<>>
    ELSE LET x == CHOOSE y \in S : TRUE IN <<x>> \o SeqOf(S \ {x})

\* one client's pipeline of set_many: self.set(key, data[key], timeout,
\* version=version, client=pipeline) for each of its keys, then execute()
RECURSIVE pipeline_sets(_, _, _, _, _, _)
pipeline_sets(st, c, keys, data, timeout, version) ==
    IF keys = <<>> THEN st
    ELSE pipeline_sets(
             set(st, RawKey(Head(keys)), data[Head(keys)], timeout, version,
                 Some(c), FALSE).store,
             c, Tail(keys), data, timeout, version)

RECURSIVE set_many_clients(_, _, _, _, _, _)
set_many_clients(st, cs, clients, data, timeout, version) ==
    IF cs = {} THEN st
    ELSE LET c == CHOOSE x \in cs : TRUE
         IN  set_many_clients(
                 pipeline_sets(st, c, clients[c], data, timeout, version),
                 cs \ {c}, clients, data, timeout, version)

set_many(st, data, timeout, version) ==
    LET clients == shard(SeqOf(DOMAIN data))
    IN  [store |-> set_many_clients(st, {c \in Nodes : clients[c] # <<>>},
                                    clients, data, timeout, version),
         result |-> NoneV]

-----------------------------------------------------------------------------
(* The inputs of the facade calls *)

Values == {IntV(MaxInt), BoolV(TRUE), StrV("x")}
Zero == Some(0)
OneSecond == Some(TimeScale)
TwoSeconds == Some(2 * TimeScale)
MinusOneSecond == Some(-TimeScale)
TimeoutArgs == {None, MinusOneSecond, Zero, OneSecond, TwoSeconds}
VersionArgs == {None} \cup {Some(v) : v \in Versions \ {DefaultVersion}}
Deltas == {-1, 1, MaxDelta}

\* the (value, timeout) pairs handed to set and to add
SetArgs ==
    {<<v, Zero>> : v \in Values}
    \cup {<<IntV(MaxInt), OneSecond>>, <<BoolV(TRUE), TwoSeconds>>,
          <<StrV("x"), None>>, <<BoolV(TRUE), MinusOneSecond>>}
AddArgs ==
    {<<IntV(MaxInt), Zero>>, <<StrV("x"), OneSecond>>, <<BoolV(TRUE), None>>,
     <<IntV(MaxInt), MinusOneSecond>>}

\* the (version, delta) pairs handed to incr_version: versions stay in Versions
VersionDeltas ==
    {vd \in VersionArgs \X {-1, 0, 1} :
        (IF vd[1] = None THEN DefaultVersion ELSE vd[1][1]) + vd[2] \in Versions}

KeyLists == {<<>>, <<<<"b">>>>, <<<<"a">>, <<"b">>>>, <<<<"b">>, <<"a">>, <<"b">>>>}
NoData == [k \in {} |-> NoneV]
DataDicts ==
    {NoData,
     [k \in {<<"b">>} |-> StrV("x")],
     [k \in Keys |-> IF k = <<"a">> THEN IntV(MaxInt) ELSE StrV("x")],
     [k \in Keys |-> IF k = <<"a">> THEN BoolV(TRUE) ELSE IntV(MaxInt)]}
ManyArgs == {<<None, None>>, <<Zero, None>>, <<Zero, Some(2)>>, <<MinusOneSecond, None>>}

VersionOf(version) == IF version = None THEN DefaultVersion ELSE version[1]

DictV(d) == [type |-> "dict", val |-> d]

Ret(op, key, version, value, timeout, delta, data, keys, result, cmds) ==
    [op |-> op, key |-> key, version |-> version, value |-> value,
     timeout |-> timeout, delta |-> delta, data |-> data, keys |-> keys,
     result |-> result, cmds |-> cmds]

NoPoolState == UNCHANGED <<pools, created, pc, made, targ, tret>>
NoKeyState == UNCHANGED <<kin, kout>>

\* a facade call: one more call made, the sharder and the other parts untouched
Call == /\ nops < MaxOps
        /\ nops' = nops + 1
        /\ UNCHANGED route
        /\ NoPoolState
        /\ NoKeyState

-----------------------------------------------------------------------------
(* The facade calls, one action each *)

Add == \E k \in Keys, a \in AddArgs, version \in VersionArgs :
    LET r == add(store, RawKey(k), a[1], a[2], version)
    IN  /\ Call
        /\ store' = r.store
        /\ ret' = Ret("add", k, version, a[1], a[2], 0, NoData, <<>>, r.result, r.cmds)

Set == \E k \in Keys, a \in SetArgs, version \in VersionArgs :
    LET r == set(store, RawKey(k), a[1], a[2], version, None, FALSE)
    IN  /\ Call
        /\ store' = r.store
        /\ ret' = Ret("set", k, version, a[1], a[2], 0, NoData, <<>>, r.result, r.cmds)

Get == \E k \in Keys, version \in VersionArgs :
    /\ Call
    /\ UNCHANGED store
    /\ ret' = Ret("get", k, version, NoneV, None, 0, NoData, <<>>,
                  get(store, RawKey(k), NoneV, version), get_cmds(RawKey(k), version))

Delete == \E k \in Keys, version \in VersionArgs :
    LET r == delete(store, RawKey(k), version)
    IN  /\ Call
        /\ store' = r.store
        /\ ret' = Ret("delete", k, version, NoneV, None, 0, NoData, <<>>, r.result, r.cmds)

Incr == \E k \in Keys, delta \in Deltas, version \in VersionArgs :
    LET r == incr(store, RawKey(k), delta, version)
    IN  /\ Call
        /\ store' = r.store
        /\ ret' = Ret("incr", k, version, NoneV, None, delta, NoData, <<>>, r.result, r.cmds)

\* renaming a key to itself (delta = 0) depends on the server: same_ok
IncrVersion == \E k \in Keys, vd \in VersionDeltas, same_ok \in BOOLEAN :
    LET r == incr_version(store, RawKey(k), vd[2], vd[1], same_ok)
    IN  /\ Call
        /\ store' = r.store
        /\ ret' = Ret("incr_version", k, vd[1], NoneV, None, vd[2], NoData, <<>>,
                      r.result, r.cmds)

GetMany == \E keys \in KeyLists, version \in VersionArgs :
    /\ Call
    /\ UNCHANGED store
    /\ ret' = Ret("get_many", <<>>, version, NoneV, None, 0, NoData, keys,
                  DictV(get_many(store, keys, version)), <<>>)

SetMany == \E data \in DataDicts, a \in ManyArgs :
    LET r == set_many(store, data, a[1], a[2])
    IN  /\ Call
        /\ store' = r.store
        /\ ret' = Ret("set_many", <<>>, a[2], NoneV, a[1], 0, data, <<>>, r.result, <<>>)

Init ==
    /\ store = [c \in Nodes |-> EmptyDb]
    /\ route \in Routes
    /\ ret = Ret("init", <<>>, None, NoneV, None, 0, NoData, <<>>, NoneV, <<>>)
    /\ nops = 0
    /\ pools = <<>>
    /\ created = <<>>
    /\ pc = <<>>
    /\ made = <<>>
    /\ targ = <<>>
    /\ tret = <<>>
    /\ kin = <<>>
    /\ kout = <<>>

Next ==
    \/ Add
    \/ Set
    \/ Get
    \/ Delete
    \/ Incr
    \/ IncrVersion
    \/ GetMany
    \/ SetMany

Spec == Init /\ [][Next]_vars

-----------------------------------------------------------------------------
(* What the claims are stated with *)

\* the entry a caller's key addresses at a version: on the client the
\* sharder gives for the key, under the encoded key
EntryAt(st, k, version) == st[route[k]][base_make_key(k, version)]
PresentAt(st, k, version) == EntryAt(st, k, version).present

\* a key is stored on some node at the default version
StoredSomewhere(st, k) ==
    \E c \in Nodes : st[c][base_make_key(k, None)].present

\* the timeout set() works with is not negative
NonNegative(timeout) ==
    (IF timeout = None THEN default_timeout * TimeScale ELSE timeout[1]) >= 0

\* a default that no caller stores
Default == StrV("default")

\* this step is a call of op; ret' holds its arguments and its result
StepOf(op) == ret'.op = op /\ nops' = nops + 1

Elements(seq) == {seq[i] : i \in 1..Len(seq)}

-----------------------------------------------------------------------------
(* C1: with the default version and a non-negative timeout, add on an      *)
(* absent key returns True and stores the value; an add on the same key    *)
(* that follows, whatever its value and timeout, returns False and leaves  *)
(* the store as it is, so get still returns the first value.  An add on a  *)
(* present key returns False and changes nothing.                          *)
C1_AddOnlyOnce ==
    [][(StepOf("add") /\ ret'.version = None /\ NonNegative(ret'.timeout)) =>
        IF ~PresentAt(store, ret'.key, None)
        THEN /\ ret'.result = BoolV(TRUE)
             /\ get(store', RawKey(ret'.key), Default, None) = ret'.value
             /\ \A v2 \in Values, t2 \in TimeoutArgs :
                    LET r2 == add(store', RawKey(ret'.key), v2, t2, None)
                    IN  /\ r2.result = BoolV(FALSE)
                        /\ r2.store = store'
                        /\ get(r2.store, RawKey(ret'.key), Default, None) = ret'.value
        ELSE /\ ret'.result = BoolV(FALSE)
             /\ store' = store
      ]_vars

\* an add of a pickled value with an expiry has returned True, the value is
\* what get returns, and a second add of another value would return False
C1_Witness ==
    /\ ret.op = "add"
    /\ ret.version = None
    /\ ret.timeout = OneSecond
    /\ ret.value = StrV("x")
    /\ ret.result = BoolV(TRUE)
    /\ get(store, RawKey(ret.key), Default, None) = StrV("x")
    /\ add(store, RawKey(ret.key), IntV(MaxInt), Zero, None).result = BoolV(FALSE)

-----------------------------------------------------------------------------
(* C2: for an integer timeout, set works by its sign: 0 stores the value   *)
(* with no expiry, a positive timeout stores it with that expiry, and a    *)
(* negative timeout returns False, sends no command and leaves the store   *)
(* as it is, so that get on a key that was absent returns the default.     *)
C2_SetBySign ==
    [][(StepOf("set") /\ ret'.timeout # None /\ ret'.timeout[1] % TimeScale = 0) =>
        LET t == ret'.timeout[1] \div TimeScale
            e == EntryAt(store', ret'.key, ret'.version)
            got == get(store', RawKey(ret'.key), Default, ret'.version)
        IN  /\ t = 0 => /\ ret'.result = BoolV(TRUE)
                        /\ got = ret'.value
                        /\ e.ttl = 0
            /\ t > 0 => /\ ret'.result = BoolV(TRUE)
                        /\ got = ret'.value
                        /\ e.ttl = t
            /\ t < 0 => /\ ret'.result = BoolV(FALSE)
                        /\ ret'.cmds = <<>>
                        /\ store' = store
                        /\ ~PresentAt(store, ret'.key, ret'.version) => got = Default
      ]_vars

\* a set with a negative timeout on an absent key has returned False
C2_Witness ==
    /\ ret.op = "set"
    /\ ret.timeout = MinusOneSecond
    /\ ret.result = BoolV(FALSE)
    /\ get(store, RawKey(ret.key), Default, ret.version) = Default
    /\ \E c \in Nodes, k \in EncTexts : store[c][k].present

-----------------------------------------------------------------------------
(* C3: set(key, v, timeout=0) then get(key) gives v back with its type; an *)
(* integer that is no bool is stored as its decimal text, every other      *)
(* value, a bool included, is stored pickled.                              *)
C3_RoundTrip ==
    [][(StepOf("set") /\ ret'.timeout = Zero) =>
        LET v == ret'.value
            e == EntryAt(store', ret'.key, ret'.version)
        IN  /\ get(store', RawKey(ret'.key), Default, ret'.version) = v
            /\ v.type = "int" => e.payload = <<IntText(v.val)>>
            /\ v.type # "int" => e.payload = serialize(v) /\ ~CanParseInt(e.payload)
      ]_vars

\* a bool has been set with timeout 0 and get gives the bool back
C3_Witness ==
    /\ ret.op = "set"
    /\ ret.timeout = Zero
    /\ ret.value = BoolV(TRUE)
    /\ get(store, RawKey(ret.key), Default, ret.version) = BoolV(TRUE)
    /\ EntryAt(store, ret.key, ret.version).payload = serialize(BoolV(TRUE))

-----------------------------------------------------------------------------
(* C4: incr(key, delta) on a key that holds a natively stored integer n    *)
(* returns n + delta, and get then returns n + delta; delta may be         *)
(* negative.                                                               *)
C4_IncrNative ==
    [][(/\ StepOf("incr")
        /\ PresentAt(store, ret'.key, ret'.version)
        /\ CanParseInt(EntryAt(store, ret'.key, ret'.version).payload)) =>
        LET n == ParseInt(EntryAt(store, ret'.key, ret'.version).payload)
        IN  /\ ret'.result = IntV(n + ret'.delta)
            /\ get(store', RawKey(ret'.key), Default, ret'.version)
                   = IntV(n + ret'.delta)
      ]_vars

\* an incr with a negative delta has returned the stored integer less one
C4_Witness ==
    /\ ret.op = "incr"
    /\ ret.delta = -1
    /\ ret.result = IntV(MaxInt - 1)
    /\ get(store, RawKey(ret.key), Default, ret.version) = IntV(MaxInt - 1)

-----------------------------------------------------------------------------
(* C5: incr and incr_version on a key that is absent at the version they   *)
(* address end in the not-found error (ValueError) and change no store.    *)
C5_NotFound ==
    [][((StepOf("incr") \/ StepOf("incr_version"))
        /\ ~PresentAt(store, ret'.key, ret'.version)) =>
        /\ ret'.result = ValueError
        /\ store' = store
      ]_vars

\* an incr on an absent key has raised while another entry is stored
C5_Witness ==
    /\ ret.op = "incr"
    /\ ret.result = ValueError
    /\ ~PresentAt(store, ret.key, ret.version)
    /\ \E c \in Nodes, k \in EncTexts : store[c][k].present

-----------------------------------------------------------------------------
(* C6 as stated: incr_version(key, delta, version=v) on a key present at v *)
(* returns v + delta; afterwards get at v returns the default and get at   *)
(* v + delta returns the value that was stored at v.                       *)
C6_AsStated ==
    [][(StepOf("incr_version") /\ PresentAt(store, ret'.key, ret'.version)) =>
        LET v == VersionOf(ret'.version)
        IN  /\ ret'.result = IntV(v + ret'.delta)
            /\ get(store', RawKey(ret'.key), Default, Some(v)) = Default
            /\ get(store', RawKey(ret'.key), Default, Some(v + ret'.delta))
                   = get(store, RawKey(ret'.key), Default, Some(v))
      ]_vars

(* C6, amended: incr_version(key, delta, version=v) with a delta other     *)
(* than 0 on a key present at v returns v + delta and moves the entry:     *)
(* afterwards get at v returns the default, and the entry at v + delta is  *)
(* the entry that was at v, value and expiry.  With a delta of 0 the key   *)
(* is renamed to itself and the entry stays at v.                          *)
C6_MovesEntry ==
    [][(/\ StepOf("incr_version")
        /\ ret'.delta # 0
        /\ PresentAt(store, ret'.key, ret'.version)) =>
        LET v == VersionOf(ret'.version)
        IN  /\ ret'.result = IntV(v + ret'.delta)
            /\ get(store', RawKey(ret'.key), Default, Some(v)) = Default
            /\ get(store', RawKey(ret'.key), Default, Some(v + ret'.delta))
                   = get(store, RawKey(ret'.key), Default, Some(v))
            /\ EntryAt(store', ret'.key, Some(v + ret'.delta))
                   = EntryAt(store, ret'.key, Some(v))
      ]_vars

\* an incr_version has moved an entry from version 1 to version 2
C6_Witness ==
    /\ ret.op = "incr_version"
    /\ ret.version = None
    /\ ret.delta = 1
    /\ ret.result = IntV(2)
    /\ get(store, RawKey(ret.key), Default, None) = Default
    /\ get(store, RawKey(ret.key), Default, Some(2)) # Default

-----------------------------------------------------------------------------
(* C7: with the default version and a non-negative timeout, after          *)
(* set_many(data) every get_many(keys) holds each key of data that is in   *)
(* keys with the value given to set_many, holds only requested keys that a *)
(* node stores, and leaves out a requested key that no node stores; when   *)
(* no requested key outside data is stored, the result is exactly the      *)
(* entries of data whose key is in keys.  The get_many call that follows a *)
(* set_many returns what this says.                                        *)
ManyAgree(st, data, keys, r) ==
    /\ \A k \in Elements(keys) \cap DOMAIN data : k \in DOMAIN r /\ r[k] = data[k]
    /\ \A k \in DOMAIN r : k \in Elements(keys) /\ StoredSomewhere(st, k)
    /\ \A k \in Elements(keys) : ~StoredSomewhere(st, k) => k \notin DOMAIN r
    /\ (\A k \in Elements(keys) \ DOMAIN data : ~StoredSomewhere(st, k)) =>
           r = [k \in Elements(keys) \cap DOMAIN data |-> data[k]]

C7_SetManyGetMany ==
    [][/\ (StepOf("set_many") /\ ret'.version = None /\ NonNegative(ret'.timeout)) =>
           \A keys \in KeyLists :
               ManyAgree(store', ret'.data, keys, get_many(store', keys, None))
       /\ (/\ ret.op = "set_many" /\ ret.version = None /\ NonNegative(ret.timeout)
           /\ StepOf("get_many") /\ ret'.version = None) =>
           ManyAgree(store, ret.data, ret'.keys, ret'.result.val)
      ]_vars

\* set_many has stored two keys on two nodes and get_many of both keys
\* returns the two
C7_Witness ==
    /\ ret.op = "set_many"
    /\ ret.version = None
    /\ ret.timeout = None
    /\ DOMAIN ret.data = Keys
    /\ route[<<"a">>] # route[<<"b">>]
    /\ get_many(store, <<<<"b">>, <<"a">>, <<"b">>>>, None) = ret.data

-----------------------------------------------------------------------------
(* The connection pool registry.  An identity is the arguments of          *)
(* get_connection_pool; "None" stands for None and port 0 for no port.  A  *)
(* pool is its number in created, the pools in the order they were made.   *)

Identity(host, port, db, password, parser_class, unix_socket_path) ==
    [host |-> host, port |-> port, db |-> db, password |-> password,
     parser_class |-> parser_class, unix_socket_path |-> unix_socket_path]

BaseIdentity == Identity("127.0.0.1", 6379, 1, "None", "DefaultParser", "None")

\* the base identity and one more for each field changed
Identities ==
    {BaseIdentity,
     [BaseIdentity EXCEPT !.host = "10.0.0.2"],
     [BaseIdentity EXCEPT !.port = 6380],
     [BaseIdentity EXCEPT !.db = 2],
     [BaseIdentity EXCEPT !.password = "secret"],
     [BaseIdentity EXCEPT !.parser_class = "HiredisParser"],
     Identity("None", 0, 1, "None", "DefaultParser", "/tmp/redis.sock")}

connection_identifier(i) ==
    <<i.host, i.port, i.db, i.parser_class, i.unix_socket_path>>

\* the keyword arguments redis.ConnectionPool is constructed with
pool_kwargs(i) ==
    [db |-> i.db,
     password |-> i.password,
     connection_class |-> IF i.unix_socket_path # "None"
                          THEN "UnixDomainSocketConnection" ELSE "Connection",
     parser_class |-> i.parser_class,
     host |-> IF i.unix_socket_path = "None" THEN i.host ELSE "unset",
     port |-> IF i.unix_socket_path = "None" THEN i.port ELSE 0,
     path |-> IF i.unix_socket_path = "None" THEN "unset" ELSE i.unix_socket_path]

\* the lookup that never finds a pool
registered_never(reg, id) == FALSE

\* self._connection_pools.get(connection_identifier) is a pool
registered(reg, id) == id \in DOMAIN reg

\* the pool constructed for an identity, as created keeps it
NewPool(i) == [id |-> connection_identifier(i), kwargs |-> pool_kwargs(i)]

get_connection_pool(reg, pls, i) ==
    LET id == connection_identifier(i)
    IN  IF ~registered(reg, id)
        THEN [pools |-> (id :> (Len(pls) + 1)) @@ reg,
              created |-> Append(pls, NewPool(i)),
              pool |-> Len(pls) + 1]
        ELSE [pools |-> reg, created |-> pls, pool |-> reg[id]]

NoCacheState == UNCHANGED <<store, route, ret, nops>>

\* a whole get_connection_pool call, the calls coming one after the other
GetConnectionPool == \E i \in Identities :
    LET r == get_connection_pool(pools, created, i)
    IN  /\ Len(targ) < MaxCalls
        /\ pools' = r.pools
        /\ created' = r.created
        /\ targ' = Append(targ, i)
        /\ tret' = Append(tret, r.pool)
        /\ UNCHANGED <<pc, made>>
        /\ NoCacheState
        /\ NoKeyState

InitRest ==
    /\ store = [c \in Nodes |-> EmptyDb]
    /\ route = [t \in KeyTexts |-> "n1"]
    /\ ret = Ret("init", <<>>, None, NoneV, None, 0, NoData, <<>>, NoneV, <<>>)
    /\ nops = 0

InitPool ==
    /\ InitRest
    /\ pools = <<>>
    /\ created = <<>>
    /\ pc = <<>>
    /\ made = <<>>
    /\ targ = <<>>
    /\ tret = <<>>
    /\ kin = <<>>
    /\ kout = <<>>

NextPool == GetConnectionPool

SpecPool == InitPool /\ [][NextPool]_vars

-----------------------------------------------------------------------------
(* C8: in a sequence of get_connection_pool calls on one registry, two     *)
(* calls with identities equal in every field returned the same pool, and  *)
(* the pool a call returned is still the pool registered for its identity: *)
(* it was never replaced or evicted.                                       *)
C8_SamePool ==
    /\ \A m \in 1..Len(targ), n \in 1..Len(targ) :
           targ[m] = targ[n] => tret[m] = tret[n]
    /\ \A n \in 1..Len(targ) :
           /\ connection_identifier(targ[n]) \in DOMAIN pools
           /\ pools[connection_identifier(targ[n])] = tret[n]

\* three calls, the first and the third with one identity, the second with
\* another: the first and the third returned one pool, the second another
C8_Witness ==
    /\ Len(targ) = 3
    /\ targ[1] = targ[3]
    /\ targ[2].host # targ[1].host
    /\ tret[1] = tret[3]
    /\ tret[2] # tret[1]

-----------------------------------------------------------------------------
(* get_connection_pool called by several threads: each thread runs the     *)
(* statements of the method one at a time, and the threads interleave      *)
(* between them.                                                           *)

Threads == 1..NumThreads
ThreadIdentities == {BaseIdentity, [BaseIdentity EXCEPT !.db = 2]}

\* a thread calls get_connection_pool
PoolCall(t) == \E i \in ThreadIdentities :
    /\ pc[t] = "idle"
    /\ pc' = [pc EXCEPT ![t] = "check"]
    /\ targ' = [targ EXCEPT ![t] = i]
    /\ UNCHANGED <<pools, created, made, tret>>
    /\ NoCacheState
    /\ NoKeyState

\* if not self._connection_pools.get(connection_identifier)
PoolCheck(t) ==
    /\ pc[t] = "check"
    /\ pc' = [pc EXCEPT ![t] =
                 IF ~registered(pools, connection_identifier(targ[t]))
                 THEN "construct" ELSE "return"]
    /\ UNCHANGED <<pools, created, made, targ, tret>>
    /\ NoCacheState
    /\ NoKeyState

\* redis.ConnectionPool(**kwargs)
PoolConstruct(t) ==
    /\ pc[t] = "construct"
    /\ created' = Append(created, NewPool(targ[t]))
    /\ made' = [made EXCEPT ![t] = Len(created) + 1]
    /\ pc' = [pc EXCEPT ![t] = "assign"]
    /\ UNCHANGED <<pools, targ, tret>>
    /\ NoCacheState
    /\ NoKeyState

\* self._connection_pools[connection_identifier] = the pool constructed
PoolAssign(t) ==
    /\ pc[t] = "assign"
    /\ pools' = (connection_identifier(targ[t]) :> made[t]) @@ pools
    /\ pc' = [pc EXCEPT ![t] = "return"]
    /\ UNCHANGED <<created, made, targ, tret>>
    /\ NoCacheState
    /\ NoKeyState

\* return self._connection_pools[connection_identifier]
PoolReturn(t) ==
    /\ pc[t] = "return"
    /\ tret' = [tret EXCEPT ![t] = pools[connection_identifier(targ[t])]]
    /\ pc' = [pc EXCEPT ![t] = "done"]
    /\ UNCHANGED <<pools, created, made, targ>>
    /\ NoCacheState
    /\ NoKeyState

InitPoolConc ==
    /\ InitRest
    /\ pools = <<>>
    /\ created = <<>>
    /\ pc = [t \in Threads |-> "idle"]
    /\ made = [t \in Threads |-> 0]
    /\ targ = [t \in Threads |-> BaseIdentity]
    /\ tret = [t \in Threads |-> 0]
    /\ kin = <<>>
    /\ kout = <<>>

NextPoolConc == \E t \in Threads :
    \/ PoolCall(t)
    \/ PoolCheck(t)
    \/ PoolConstruct(t)
    \/ PoolAssign(t)
    \/ PoolReturn(t)

SpecPoolConc == InitPoolConc /\ [][NextPoolConc]_vars

\* the pools constructed so far for an identifier
PoolsMadeFor(id) == {n \in 1..Len(created) : created[n].id = id}

-----------------------------------------------------------------------------
(* C9: under every interleaving of get_connection_pool calls for one       *)
(* identity that is not registered yet, one pool is constructed and every  *)
(* caller is returned that pool: never two pools for one identity.         *)
C9_OnePoolPerIdentity ==
    /\ \A i \in ThreadIdentities :
           Cardinality(PoolsMadeFor(connection_identifier(i))) <= 1
    /\ \A t1 \in Threads, t2 \in Threads :
           (pc[t1] = "done" /\ pc[t2] = "done" /\ targ[t1] = targ[t2])
               => tret[t1] = tret[t2]

-----------------------------------------------------------------------------
(* make_key applied twice: the inputs are a raw key and two versions       *)

KeyVersionArgs == {None} \cup {Some(v) : v \in 0..MaxKeyVersion}
\* raw keys: two plain ones, one that reads like an encoded key, the empty one
RawKeyInputs ==
    {RawKey(<<"a">>), RawKey(<<"b">>), RawKey(<<key_prefix, ":", "1", ":", "a">>),
     RawKey(<<>>)}

InitKey ==
    /\ InitRest
    /\ pools = <<>>
    /\ created = <<>>
    /\ pc = <<>>
    /\ made = <<>>
    /\ targ = <<>>
    /\ tret = <<>>
    /\ kin \in [key : RawKeyInputs, ver : KeyVersionArgs, ver2 : KeyVersionArgs]
    /\ kout = <<>>

\* make_key(k, ver)
EncodeOnce ==
    /\ kout = <<>>
    /\ kout' = <<make_key(kin.key, kin.ver)>>
    /\ UNCHANGED kin
    /\ NoCacheState
    /\ NoPoolState

\* make_key(make_key(k, ver), ver2)
EncodeAgain ==
    /\ Len(kout) = 1
    /\ kout' = Append(kout, make_key(kout[1], kin.ver2))
    /\ UNCHANGED kin
    /\ NoCacheState
    /\ NoPoolState

NextKey == EncodeOnce \/ EncodeAgain

SpecKey == InitKey /\ [][NextKey]_vars

-----------------------------------------------------------------------------
(* C10: make_key(make_key(k, ver), ver2) is make_key(k, ver): the encoded  *)
(* key comes back as it is, with the prefix and the version of the first   *)
(* call once in front of the raw key.                                      *)
C10_MakeKeyIdempotent ==
    Len(kout) = 2 =>
        /\ kout[2] = kout[1]
        /\ kout[2].cachekey
        /\ kout[2].text =
               <<key_prefix, ":",
                 ToString(IF kin.ver = None THEN DefaultVersion ELSE kin.ver[1]),
                 ":">> \o kin.key.text

\* a raw key that reads like an encoded key went through make_key twice
\* with two versions
C10_Witness ==
    /\ Len(kout) = 2
    /\ kin.ver = Some(2)
    /\ kin.ver2 = None
    /\ kin.key.text = <<key_prefix, ":", "1", ":", "a">>
    /\ kout[2].text = <<key_prefix, ":", "2", ":", key_prefix, ":", "1", ":", "a">>

-----------------------------------------------------------------------------
(* What the claims about versions are stated with *)

\* every version a caller can name, as an argument
AllVersionArgs == {Some(v) : v \in Versions}

\* the facade calls that address one caller key at one version
SingleKeyOps == {"get", "set", "add", "delete", "incr", "incr_version"}

-----------------------------------------------------------------------------
(* C11: every node command that get, set, add, delete, incr (the read and  *)
(* the write of its fallback included) and incr_version send for one       *)
(* caller key and version goes to one and the same node client, whatever   *)
(* deterministic function of the key handed to it the sharder is.          *)
C11_OneClientPerCall ==
    ret.op \in SingleKeyOps =>
        \A i \in DOMAIN ret.cmds, j \in DOMAIN ret.cmds :
            ret.cmds[i].node = ret.cmds[j].node

-----------------------------------------------------------------------------
(* C13: add honours its version: with a non-negative timeout,              *)
(* add(key, value, version=v) returns True exactly when (key, v) was       *)
(* absent; then get(key, version=v) returns the value, and no entry of the *)
(* key at another version is written.                                      *)
C13_AddHonoursVersion ==
    [][(StepOf("add") /\ NonNegative(ret'.timeout)) =>
        LET v == Some(VersionOf(ret'.version))
        IN  /\ (ret'.result = BoolV(TRUE)) <=> ~PresentAt(store, ret'.key, v)
            /\ ret'.result = BoolV(TRUE) =>
                   get(store', RawKey(ret'.key), Default, v) = ret'.value
            /\ \A v2 \in AllVersionArgs \ {v} :
                   EntryAt(store', ret'.key, v2) = EntryAt(store, ret'.key, v2)
      ]_vars

-----------------------------------------------------------------------------
(* C14: get_many agrees with get at every version: get_many(keys,          *)
(* version=v) holds key k with value x exactly when k is requested, the    *)
(* entry (k, v) is present and get(k, version=v) returns x.                *)
C14_GetManyAsGet ==
    [][StepOf("get_many") =>
        LET d == ret'.result.val
        IN  \A k \in Keys :
                /\ k \in DOMAIN d <=>
                       (k \in Elements(ret'.keys) /\ PresentAt(store, k, ret'.version))
                /\ k \in DOMAIN d =>
                       d[k] = get(store, RawKey(k), Default, ret'.version)
      ]_vars

-----------------------------------------------------------------------------
(* C17: incr(key, delta) on a present key that holds a number, stored as   *)
(* decimal text or serialized, returns the old value plus delta, and a get *)
(* that follows returns the same.                                          *)
C17_IncrAddsDelta ==
    [][(/\ StepOf("incr")
        /\ PresentAt(store, ret'.key, ret'.version)
        /\ IsInstanceInt(get(store, RawKey(ret'.key), Default, ret'.version))) =>
        LET old == get(store, RawKey(ret'.key), Default, ret'.version)
        IN  /\ ret'.result = IntV(old.val + ret'.delta)
            /\ get(store', RawKey(ret'.key), Default, ret'.version)
                   = IntV(old.val + ret'.delta)
      ]_vars

-----------------------------------------------------------------------------
(* C20: incr leaves the expiry of the key as it was, on the native path    *)
(* and on the fallback path: no expiry stays no expiry, and an expiry is   *)
(* kept.                                                                   *)
C20_IncrKeepsExpiry ==
    [][(StepOf("incr") /\ PresentAt(store, ret'.key, ret'.version)) =>
        /\ PresentAt(store', ret'.key, ret'.version)
        /\ EntryAt(store', ret'.key, ret'.version).ttl
               = EntryAt(store, ret'.key, ret'.version).ttl
      ]_vars

-----------------------------------------------------------------------------
(* C12: two identities share a pool only if they are equal in every field, *)
(* the password included: two get_connection_pool calls with identities    *)
(* that differ in a field returned two pools.                              *)
C12_DistinctIdentitiesDistinctPools ==
    \A m \in 1..Len(targ), n \in 1..Len(targ) :
        targ[m] # targ[n] => tret[m] # tret[n]

-----------------------------------------------------------------------------
(* add called by several threads on one absent key: each thread sends the  *)
(* node commands of add one at a time, and the threads interleave between  *)
(* the commands.  kin is the key, targ[t] the arguments of thread t,       *)
(* made[t] the number of commands it has sent and tret[t] what its call    *)
(* returned.                                                               *)

\* the (value, timeout) pairs of the concurrent adds: no negative timeout
ConcAddArgs == {a \in AddArgs : NonNegative(a[2])}

\* the seconds set() hands to _set
set_seconds(timeout) ==
    IF timeout = None THEN default_timeout ELSE PyInt(timeout[1])

\* the first write of _set without the _add_only test: a plain SET
_set_write_plain(db, k, payload, _add_only) ==
    [db |-> redis_set(db, k, payload), added |-> TRUE]

\* the first write of _set: SETNX when _add_only, SET (or SETEX) otherwise
_set_write(db, k, payload, _add_only) ==
    IF _add_only THEN redis_setnx(db, k, payload)
    ELSE [db |-> redis_set(db, k, payload), added |-> TRUE]

AddKey == RawKey(kin)
AddClient == get_client(AddKey)
AddEncoded == make_key(AddKey, None).text

NoAddFrame == UNCHANGED <<route, ret, nops, pools, created, kin, kout>>

\* a thread calls add(key, value, timeout)
AddCall(t) == \E a \in ConcAddArgs :
    /\ pc[t] = "idle"
    /\ pc' = [pc EXCEPT ![t] = "exists"]
    /\ targ' = [targ EXCEPT ![t] = [value |-> a[1], timeout |-> a[2]]]
    /\ UNCHANGED <<store, made, tret>>
    /\ NoAddFrame

\* if client.exists(self.make_key(key, version=version)): return False
AddExists(t) ==
    /\ pc[t] = "exists"
    /\ made' = [made EXCEPT ![t] = made[t] + 1]
    /\ IF redis_exists(store[AddClient], AddEncoded)
       THEN /\ pc' = [pc EXCEPT ![t] = "done"]
            /\ tret' = [tret EXCEPT ![t] = BoolV(FALSE)]
       ELSE /\ pc' = [pc EXCEPT ![t] = "setnx"]
            /\ UNCHANGED tret
    /\ UNCHANGED <<store, targ>>
    /\ NoAddFrame

\* self.set(key, value, timeout, _add_only=True) up to client.setnx
AddSetnx(t) ==
    LET w == _set_write(store[AddClient], AddEncoded,
                        set_payload(targ[t].value), TRUE)
        secs == set_seconds(targ[t].timeout)
    IN  /\ pc[t] = "setnx"
        /\ made' = [made EXCEPT ![t] = made[t] + 1]
        /\ store' = [store EXCEPT ![AddClient] = w.db]
        /\ IF secs > 0 /\ w.added
           THEN /\ pc' = [pc EXCEPT ![t] = "expire"]
                /\ UNCHANGED tret
           ELSE /\ pc' = [pc EXCEPT ![t] = "done"]
                /\ tret' = [tret EXCEPT ![t] = BoolV(w.added)]
        /\ UNCHANGED targ
        /\ NoAddFrame

\* client.expire(key, timeout); return added
AddExpire(t) ==
    /\ pc[t] = "expire"
    /\ made' = [made EXCEPT ![t] = made[t] + 1]
    /\ store' = [store EXCEPT ![AddClient] =
                    redis_expire(store[AddClient], AddEncoded,
                                 set_seconds(targ[t].timeout))]
    /\ pc' = [pc EXCEPT ![t] = "done"]
    /\ tret' = [tret EXCEPT ![t] = BoolV(TRUE)]
    /\ UNCHANGED targ
    /\ NoAddFrame

InitAddConc ==
    /\ store = [c \in Nodes |-> EmptyDb]
    /\ route \in Routes
    /\ ret = Ret("init", <<>>, None, NoneV, None, 0, NoData, <<>>, NoneV, <<>>)
    /\ nops = 0
    /\ pools = <<>>
    /\ created = <<>>
    /\ pc = [t \in Threads |-> "idle"]
    /\ made = [t \in Threads |-> 0]
    /\ targ = [t \in Threads |-> [value |-> NoneV, timeout |-> None]]
    /\ tret = [t \in Threads |-> NoneV]
    /\ kin \in Keys
    /\ kout = <<>>

NextAddConc == \E t \in Threads :
    \/ AddCall(t)
    \/ AddExists(t)
    \/ AddSetnx(t)
    \/ AddExpire(t)

SpecAddConc == InitAddConc /\ [][NextAddConc]_vars

-----------------------------------------------------------------------------
(* C15: under every interleaving of the node commands of concurrent adds   *)
(* on one absent key (default version, non-negative timeout, no other      *)
(* writer) at most one add returns True, and the value stored is the value *)
(* of the add that returned True.                                          *)
C15_OneAddWins ==
    /\ Cardinality({t \in Threads : tret[t] = BoolV(TRUE)}) <= 1
    /\ \A t \in Threads :
           tret[t] = BoolV(TRUE) =>
               get(store, AddKey, Default, None) = targ[t].value

\* two adds both found the key absent; the first to write returned True and
\* the other, refused by the node, returned False: the first value is stored
C15_Witness ==
    /\ pc[1] = "done" /\ pc[2] = "done"
    /\ tret[1] = BoolV(TRUE)
    /\ tret[2] = BoolV(FALSE)
    /\ made[2] = 2
    /\ targ[1].value # targ[2].value
    /\ get(store, AddKey, Default, None) = targ[1].value

-----------------------------------------------------------------------------
(* incr running while another thread deletes the key: incr sends its node  *)
(* commands one at a time and the delete falls between any two of them.    *)
(* kin is the key, targ the delta, pc the position of incr and of the      *)
(* delete, tret what incr returned; made records whether the node applied  *)
(* the increment and whether the key was present at that moment.           *)

IncrKey == RawKey(kin)
IncrClient == get_client(IncrKey)
IncrEncoded == make_key(IncrKey, None)

\* the stores a set leaves on an empty cache, and the empty cache
StoresAfterSet(k) ==
    {[c \in Nodes |-> EmptyDb]}
    \cup {set([c \in Nodes |-> EmptyDb], RawKey(k), a[1], a[2], None, None, FALSE).store :
            a \in SetArgs}

NoIncrFrame == UNCHANGED <<route, ret, nops, pools, created, kin, kout>>

\* a thread calls incr(key, delta)
IncrCall == \E delta \in Deltas :
    /\ pc.incr = "idle"
    /\ pc' = [pc EXCEPT !.incr = "exists"]
    /\ targ' = delta
    /\ UNCHANGED <<store, made, tret>>
    /\ NoIncrFrame

\* exists = client.exists(key); if not exists: raise ValueError
IncrExists ==
    /\ pc.incr = "exists"
    /\ IF redis_exists(store[IncrClient], IncrEncoded.text)
       THEN /\ pc' = [pc EXCEPT !.incr = "incr"]
            /\ UNCHANGED tret
       ELSE /\ pc' = [pc EXCEPT !.incr = "done"]
            /\ tret' = ValueError
    /\ UNCHANGED <<store, made, targ>>
    /\ NoIncrFrame

\* value = client.incr(key, delta); except redis.ResponseError: the fallback
IncrNative ==
    LET n == redis_incr(store[IncrClient], IncrEncoded.text, targ)
    IN  /\ pc.incr = "incr"
        /\ made' = [applied |-> n.ok,
                    present |-> redis_exists(store[IncrClient], IncrEncoded.text)]
        /\ store' = [store EXCEPT ![IncrClient] = n.db]
        /\ IF n.ok
           THEN /\ pc' = [pc EXCEPT !.incr = "done"]
                /\ tret' = IntV(n.value)
           ELSE /\ pc' = [pc EXCEPT !.incr = "get"]
                /\ UNCHANGED tret
        /\ UNCHANGED targ
        /\ NoIncrFrame

\* value = self.get(key) + 1
IncrGet ==
    LET old == get(store, IncrEncoded, NoneV, None)
    IN  /\ pc.incr = "get"
        /\ IF IsInstanceInt(old)
           THEN /\ pc' = [pc EXCEPT !.incr = "set"]
                /\ tret' = IntV(old.val + 1)
           ELSE /\ pc' = [pc EXCEPT !.incr = "done"]
                /\ tret' = TypeError
        /\ UNCHANGED <<store, made, targ>>
        /\ NoIncrFrame

\* self.set(key, value); return value
IncrSet ==
    /\ pc.incr = "set"
    /\ store' = set(store, IncrEncoded, tret, None, None, None, FALSE).store
    /\ pc' = [pc EXCEPT !.incr = "done"]
    /\ UNCHANGED <<made, targ, tret>>
    /\ NoIncrFrame

\* the other thread: delete(key)
ConcDelete ==
    /\ pc.delete = "idle"
    /\ store' = delete(store, IncrKey, None).store
    /\ pc' = [pc EXCEPT !.delete = "done"]
    /\ UNCHANGED <<made, targ, tret>>
    /\ NoIncrFrame

InitIncrConc ==
    /\ kin \in Keys
    /\ route \in Routes
    /\ store \in StoresAfterSet(kin)
    /\ ret = Ret("init", <<>>, None, NoneV, None, 0, NoData, <<>>, NoneV, <<>>)
    /\ nops = 0
    /\ pools = <<>>
    /\ created = <<>>
    /\ pc = [incr |-> "idle", delete |-> "idle"]
    /\ made = [applied |-> FALSE, present |-> FALSE]
    /\ targ = 0
    /\ tret = NoneV
    /\ kout = <<>>

NextIncrConc ==
    \/ IncrCall
    \/ IncrExists
    \/ IncrNative
    \/ IncrGet
    \/ IncrSet
    \/ ConcDelete

SpecIncrConc == InitIncrConc /\ [][NextIncrConc]_vars

-----------------------------------------------------------------------------
(* C16: incr never creates a key: under every interleaving of incr with a  *)
(* concurrent delete of the key, an incr that ended either raised the      *)
(* not-found error or incremented an entry present at the moment of the    *)
(* increment, and a key that was absent when the node applied the          *)
(* increment is absent when the call ends.                                 *)
C16_IncrNeverCreates ==
    pc.incr = "done" =>
        /\ tret = ValueError \/ made.present
        /\ (made.applied /\ ~made.present) =>
               ~redis_exists(store[IncrClient], IncrEncoded.text)

-----------------------------------------------------------------------------
(* incr_version on a cache that already holds entries: the store starts    *)
(* with any of the entries (key, version) present, each on the node of its *)
(* key, as earlier sets leave them; kin keeps the store as it was before   *)
(* the last call.                                                          *)

\* what a stored entry can be: a native integer or a serialized value
StoredEntries ==
    {Absent, Stored(set_payload(IntV(MaxInt)), 0), Stored(set_payload(StrV("x")), 0)}

\* the store that holds entry f[<<k, v>>] for key k at version v
StoreOf(f) ==
    [c \in Nodes |->
        [e \in EncTexts |->
            LET kv == CHOOSE x \in Keys \X Versions :
                          base_make_key(x[1], Some(x[2])) = e
            IN  IF get_client(RawKey(kv[1])) = c THEN f[kv] ELSE Absent]]

InitVersion ==
    /\ route \in Routes
    /\ \E f \in [Keys \X Versions -> StoredEntries] : store = StoreOf(f)
    /\ kin = store
    /\ ret = Ret("init", <<>>, None, NoneV, None, 0, NoData, <<>>, NoneV, <<>>)
    /\ nops = 0
    /\ pools = <<>>
    /\ created = <<>>
    /\ pc = <<>>
    /\ made = <<>>
    /\ targ = <<>>
    /\ tret = <<>>
    /\ kout = <<>>

\* incr_version(key, delta, version), the store before it kept in kin
IncrVersionStep == \E k \in Keys, vd \in VersionDeltas, same_ok \in BOOLEAN :
    LET r == incr_version(store, RawKey(k), vd[2], vd[1], same_ok)
    IN  /\ nops < MaxOps
        /\ nops' = nops + 1
        /\ kin' = store
        /\ store' = r.store
        /\ ret' = Ret("incr_version", k, vd[1], NoneV, None, vd[2], NoData, <<>>,
                      r.result, r.cmds)
        /\ UNCHANGED <<route, kout>>
        /\ NoPoolState

NextVersion == IncrVersionStep

SpecVersion == InitVersion /\ [][NextVersion]_vars

\* the encoded keys of the last incr_version: the one renamed and its new name
RenamedFrom == base_make_key(ret.key, Some(VersionOf(ret.version)))
RenamedTo == base_make_key(ret.key, Some(VersionOf(ret.version) + ret.delta))

-----------------------------------------------------------------------------
(* C18 as stated: after incr_version(key, delta, version=v) every value    *)
(* that was retrievable under an encoded key other than (key, v), an entry *)
(* stored at (key, v + delta) included, is retrievable with the same value.*)
C18_AsStated ==
    ret.op = "incr_version" =>
        \A k2 \in Keys, v2 \in AllVersionArgs :
            (base_make_key(k2, v2) # RenamedFrom /\ PresentAt(kin, k2, v2)) =>
                get(store, RawKey(k2), Default, v2) = get(kin, RawKey(k2), Default, v2)

(* C18, amended: incr_version(key, delta, version=v) changes no entry      *)
(* other than the one it renames and the one at its new name: every entry  *)
(* on another node, and every entry under an encoded key other than        *)
(* (key, v) and (key, v + delta), is as it was before the call; an entry   *)
(* already stored at (key, v + delta) is replaced by the renamed entry     *)
(* when the rename succeeds and kept when it fails.                        *)
C18_FrameButDestination ==
    ret.op = "incr_version" =>
        /\ \A c \in Nodes, e \in EncTexts :
               (c # route[ret.key] \/ e \notin {RenamedFrom, RenamedTo}) =>
                   store[c][e] = kin[c][e]
        /\ (ret.result # ValueError /\ ret.delta # 0) =>
               store[route[ret.key]][RenamedTo] = kin[route[ret.key]][RenamedFrom]
        /\ ret.result = ValueError => store = kin

\* an incr_version has renamed an entry onto a present entry with another
\* value while the other key held entries at both versions
C18_Witness ==
    /\ ret.op = "incr_version"
    /\ ret.result = IntV(2)
    /\ ret.delta = 1
    /\ kin[route[ret.key]][RenamedTo].present
    /\ kin[route[ret.key]][RenamedTo] # kin[route[ret.key]][RenamedFrom]
    /\ \A v2 \in AllVersionArgs :
           \E k2 \in Keys \ {ret.key} : PresentAt(store, k2, v2)

-----------------------------------------------------------------------------
(* set with timeouts that are not whole seconds: the timeouts are every    *)
(* multiple of 1/TimeScale second from -2 to 2 seconds.                    *)

FineTimeouts == {Some(t) : t \in (-2 * TimeScale)..(2 * TimeScale)}

InitTimeout ==
    /\ InitRest
    /\ pools = <<>>
    /\ created = <<>>
    /\ pc = <<>>
    /\ made = <<>>
    /\ targ = <<>>
    /\ tret = <<>>
    /\ kin = <<>>
    /\ kout = <<>>

\* set(key, value, timeout) with any of the timeouts
SetTimed == \E k \in Keys, value \in Values, timeout \in FineTimeouts :
    LET r == set(store, RawKey(k), value, timeout, None, None, FALSE)
    IN  /\ Call
        /\ store' = r.store
        /\ ret' = Ret("set", k, None, value, timeout, 0, NoData, <<>>, r.result, r.cmds)

NextTimeout == SetTimed

SpecTimeout == InitTimeout /\ [][NextTimeout]_vars

-----------------------------------------------------------------------------
(* C19: set classifies a timeout, fractional ones included, by its sign: a *)
(* timeout below 0 stores nothing and returns False, a timeout above 0     *)
(* stores the value with an expiry, and only a timeout equal to 0 stores   *)
(* an entry that never expires.                                            *)
C19_FractionBySign ==
    [][StepOf("set") =>
        LET t == ret'.timeout[1]
            e == EntryAt(store', ret'.key, None)
        IN  /\ t < 0 => (ret'.result = BoolV(FALSE) /\ store' = store)
            /\ t > 0 => (/\ ret'.result = BoolV(TRUE)
                         /\ e.present
                         /\ e.ttl > 0
                         /\ get(store', RawKey(ret'.key), Default, None) = ret'.value)
            /\ t = 0 => (ret'.result = BoolV(TRUE) /\ e.present /\ e.ttl = 0)
      ]_vars

====
